---- MODULE Spec2Model ----
(***************************************************************************)
(* Model of the download / verify / extract / install pipeline of          *)
(* src/src/utils/sdkUtils.ts (downloadFile, extractZipWithProgress,        *)
(* verifySha256, downloadAndInstallSdk, installCmdTools,                   *)
(* manualInstallCmdTools, installEmulator).                                *)
(*                                                                         *)
(* JavaScript runs one handler at a time: an action below is one event     *)
(* handler (or the continuation of an async function after an await),      *)
(* run to its next suspension point.  A promise settled inside a handler   *)
(* resumes its awaiter in a microtask, before any other event: Pending     *)
(* disables the environment's events until the awaiter has run.  A stream  *)
(* ended with nothing left to write emits 'finish' in a process.nextTick   *)
(* callback, also before any other event, and before or after the awaiter  *)
(* depending on where the handler was called from: TickDue.                *)
(*                                                                         *)
(* Library calls are modelled by what Node.js does:                        *)
(*  - fs.WriteStream.close() ends the stream (it calls this.end()), so a   *)
(*    'finish' event follows every close() of a stream still open;         *)
(*  - http.IncomingMessage delivers at most Content-Length body bytes;     *)
(*  - fs.createWriteStream(dest) has created dest before any later event   *)
(*    is handled;                                                          *)
(*  - fs.unlink(dest) removes the directory entry of dest.                 *)
(* Math.round(s + (a/b)*r) is modelled in exact arithmetic for integer s.  *)
(***************************************************************************)
EXTENDS Integers, Sequences, FiniteSets, TLC

\* ------------------------------------------------------------------ bounds

\* largest Content-Length (bytes) a response declares, and largest body
MaxBody == 3
\* largest chunk (bytes) a 'data' event carries
MaxChunk == 2
\* largest number of entries in a zip archive
MaxEntries == 2
\* largest number of component zips in the extracted SDK (orchestrator runs)
MaxZips == 2
\* largest number of component zips in the budget partition runs
MaxParts == 37
\* largest number of characters in a .sha256 sidecar file
MaxSidecar == 4
\* largest number of install messages one panel handles
MaxRuns == 4
MaxLogs == 3

\* ------------------------------------------------------- program constants

\* componentsStart, componentsBudget of downloadAndInstallSdk
componentsStart == 60
componentsBudget == 35

DlIds == {"archive", "sidecar"}

\* response status codes the server may answer with (redirects are followed
\* by the transport and never reach the callback)
Statuses == {200, 206, 404, 500}

Min(a, b) == IF a < b THEN a ELSE b
Max(a, b) == IF a > b THEN a ELSE b

\* ------------------------------------------------ progress budget allocator

\* const s = Math.max(0, Math.min(100, start))
ClampStart(start) == Max(0, Min(100, start))

\* const r = Math.max(0, Math.min(100 - s, range))
ClampRangeOpen(start, range) == Max(0, range)
ClampRange(start, range) == Max(0, Min(100 - ClampStart(start), range))

\* Math.round(num / den * r) for num, r >= 0, den > 0: halves round up
RoundScaled(num, den, r) == (2 * num * r + den) \div (2 * den)

\* const overall = Math.min(100, Math.round(s + (done / total) * r))
Overall(s, r, num, den) == Min(100, s + RoundScaled(num, den, r))

\* const endOverall = Math.min(100, Math.round(s + r))
EndOverall(s, r) == Min(100, s + r)

\* inc = overall - lastOverall; report inc if inc > 0, else report 0
IncOf(overall, last) == IF overall - last > 0 THEN overall - last ELSE 0
LastOfStale(overall, last) == last
LastOf(overall, last) == IF overall - last > 0 THEN overall ELSE last

\* the closing increment: reported only when > 0
ClosingIncNever(s, r, last) == 0
ClosingInc(s, r, last) == IF EndOverall(s, r) - last > 0 THEN EndOverall(s, r) - last ELSE 0

\* ------------------------------------------------------------------- state

VARIABLES
    kind,       \* "sdk" | "cmd" | "manual" | "emu": the orchestrator; "sub": one sub-operation alone
    pc,         \* position of the orchestrator (the await it is suspended at)
    aborted,    \* abortSignal.aborted
    sink,       \* a progress reporter was passed
    sum,        \* sum of the increments reported to the sink
    minInc,     \* smallest increment ever reported (0 when none)
    zeroCalls,  \* the sink was called with increment 0
    dl,         \* the downloadFile calls of the run: DlIds -> record
    zx,         \* the extractZipWithProgress call in progress
    tmp,        \* the temp directory: "none" | "exists" | "removed"
    install,    \* contents of the install directory: subset of {"old", "new"}
    install0,   \* contents of the install directory when the run started
    comp,       \* component loop of downloadAndInstallSdk: n, idx, base, rem, cursor
    verified,   \* verifySha256 of the run: st is "none" | "running" | "ok" | "mismatch"; the archive's content and the sidecar's first token
    extracted,  \* extractTarball has run to completion
    steps,      \* the steps the run has started, in order
    err,        \* the error the run rejected with, or NoError
    call,       \* a call of verifySha256 or getSdkFilename alone: arguments and outcome
    panel,      \* the SDK-manager panel: currentAbortController and the runs its handlers started
    viewer      \* a HiLog viewer panel: hdcProcess, the processes it spawned, the startLog handlers in progress

vars == <<kind, pc, aborted, sink, sum, minInc, zeroCalls, dl, zx, tmp, install, install0,
          comp, verified, extracted, steps, err, call, panel, viewer>>

\* an Error: its message, and the URL and status code the message names
NoError == [msg |-> "", url |-> "", status |-> 0]
Err(msg) == [msg |-> msg, url |-> "", status |-> 0]

\* new Error('Download cancelled')
Cancelled == Err("Download cancelled")

\* the error of a failed connection, as the transport emits it
NetError == Err("network error")

\* new Error(`Failed to get '${url}' (${response.statusCode})`)
HttpError(url, status) == [msg |-> "Failed to get", url |-> url, status |-> status]

\* a downloadFile call that has not been made
NoDownload ==
    [st |-> "idle", url |-> "", settled |-> "no", error |-> NoError, status |-> 0,
     file |-> FALSE, fstream |-> "none", writing |-> FALSE,
     listener |-> FALSE, onFinish |-> FALSE, total |-> 0, downloaded |-> 0,
     lastOverall |-> 0, s |-> 0, r |-> 0, startArg |-> 0, rangeArg |-> 0]

\* an extractZipWithProgress call that has not been made
\* the entry written last: its type, the high and low 16 bits of its
\* externalFileAttributes (a 32-bit value), the mode chmod was called with
\* (-1: not called) and whether chmod threw
NoEntry == [type |-> "none", hi |-> 0, lo |-> 0, mode |-> -1, failed |-> FALSE]

NoZip ==
    [st |-> "idle", files |-> 0, processed |-> 0, lastOverall |-> 0, s |-> 0, r |-> 0,
     startArg |-> 0, rangeArg |-> 0, dest |-> "tmp", src |-> "disk", entry |-> NoEntry]

\* no function is called alone
NoCall == [fn |-> "none"]

\* no panel is open
NoPanel == [current |-> 0, runs |-> <<>>, cancelled |-> {}]

\* a HiLog viewer panel that has been created: hdcProcess is undefined (0),
\* no process was spawned, no startLog handler awaits the buffer-level
\* command, no message was received and the panel is not disposed
NoViewer == [hdcProcess |-> 0, procs |-> <<>>, awaiting |-> 0, last |-> "none", disposed |-> FALSE]

NotVerified == [st |-> "none", content |-> "", expected |-> <<>>]

\* the component phase has not started: folder is what readdirSync(osContentPath)
\* met ("none" before the call), zips the component zips on disk, unzipped the
\* ones whose extraction has completed, in order
NoComp ==
    [n |-> 0, idx |-> 0, base |-> 0, rem |-> 0, cursor |-> 0, budget |-> 0,
     folder |-> "none", zips |-> {}, unzipped |-> <<>>]

\* progress.report?.({ increment: inc }) for each inc of incs, in order
RECURSIVE SumSeq(_)
SumSeq(q) == IF q = <<>> THEN 0 ELSE Head(q) + SumSeq(Tail(q))

RECURSIVE MinSeq(_, _)
MinSeq(q, m) == IF q = <<>> THEN m ELSE MinSeq(Tail(q), Min(m, Head(q)))

Report(incs) ==
    IF sink
    THEN /\ sum' = sum + SumSeq(incs)
         /\ minInc' = MinSeq(incs, minInc)
         /\ zeroCalls' = (zeroCalls \/ \E i \in 1..Len(incs) : incs[i] = 0)
    ELSE UNCHANGED <<sum, minInc, zeroCalls>>

\* ------------------------------------------------------------ downloadFile

\* the download the orchestrator is suspended on, or "none"
AwaitedDl ==
    IF pc = "dlArchive" THEN "archive"
    ELSE IF pc = "dlChecksum" THEN "sidecar"
    ELSE "none"

\* the orchestrator is suspended on extractZipWithProgress
AwaitsZip == pc \in {"extractZip", "components"}

\* a promise the orchestrator awaits has settled: its continuation runs next
Pending ==
    \/ AwaitedDl # "none" /\ dl[AwaitedDl].settled # "no"
    \/ AwaitsZip /\ zx.st \in {"resolved", "rejected"}

\* a write stream was ended and has nothing left to write: 'finish' is emitted
\* before any other event is handled
TickDue == \E d \in DlIds : dl[d].fstream = "ending" /\ ~dl[d].writing

\* no event of the environment is handled before the awaiter and 'finish' have run
Busy == Pending \/ TickDue

\* the run has been started and has neither returned nor thrown
Running == pc \notin {"init", "done", "failed"}

\* const done = (err?) => { if (settled) return; settled = true; ... }
SettleAgain(rec, e) ==
    [rec EXCEPT !.settled = IF e = NoError THEN "ok" ELSE "rejected", !.error = e]
Settle(rec, e) ==
    IF rec.settled = "no"
    THEN [rec EXCEPT !.settled = IF e = NoError THEN "ok" ELSE "rejected", !.error = e]
    ELSE rec

\* file.close(): ends the write stream if it is still open
CloseFile(rec) ==
    IF rec.fstream = "open" THEN [rec EXCEPT !.fstream = "ending"] ELSE rec

\* fs.unlink(dest, () => {})
Unlink(rec) == [rec EXCEPT !.file = FALSE]

\* the synchronous part of downloadFile(url, dest, progress, abortSignal, start, range)
DownloadFile(url, start, range) ==
    LET b == [NoDownload EXCEPT !.url = url,
                                !.s = ClampStart(start), !.r = ClampRange(start, range),
                                !.startArg = start, !.rangeArg = range]
    IN  IF aborted
        THEN Settle(b, Cancelled)
        ELSE [b EXCEPT !.st = "requested", !.file = TRUE, !.fstream = "open",
                       !.listener = TRUE]

\* the response callback when response.statusCode !== 200
RejectStatusKeepFile(rec, status) ==
    Settle(CloseFile([rec EXCEPT !.st = "rejected"]), HttpError(rec.url, status))
RejectStatus(rec, status) ==
    Settle(Unlink(CloseFile([rec EXCEPT !.st = "rejected"])), HttpError(rec.url, status))

\* the response callback when response.statusCode === 200
AcceptResponse(rec, total) ==
    [rec EXCEPT !.st = "streaming", !.total = total, !.downloaded = 0,
                !.lastOverall = rec.s, !.onFinish = TRUE]

\* response => { if (response.statusCode !== 200) { ... return; } ... }
OnResponse(rec, status, total) ==
    IF status # 200
    THEN RejectStatus([rec EXCEPT !.status = status], status)
    ELSE AcceptResponse([rec EXCEPT !.status = status], total)

\* proto.get(url, response => { ... })
DlResponse(d) ==
    /\ ~Busy
    /\ dl[d].st = "requested"
    /\ \E status \in Statuses, total \in 0..MaxBody :
          dl' = [dl EXCEPT ![d] = OnResponse(@, status, total)]
    /\ UNCHANGED <<viewer, call, panel, kind, pc, aborted, sink, sum, minInc, zeroCalls, zx, tmp, install, install0,
                   comp, verified, extracted, steps, err>>

\* response.on('data', chunk => { ... }); the pipe writes the chunk to the file
DlData(d) ==
    /\ ~Busy
    /\ dl[d].st = "streaming"
    /\ \E len \in 1..MaxChunk :
          LET rec == dl[d]
              got == rec.downloaded + len
              overall == Overall(rec.s, rec.r, got, rec.total)
          IN  /\ got <= (IF rec.total > 0 THEN rec.total ELSE MaxBody)
              /\ IF sink /\ rec.total # 0
                 THEN /\ Report(<<IncOf(overall, rec.lastOverall)>>)
                      /\ dl' = [dl EXCEPT ![d].downloaded = got, ![d].writing = TRUE,
                                          ![d].lastOverall = LastOf(overall, rec.lastOverall)]
                 ELSE /\ dl' = [dl EXCEPT ![d].downloaded = got, ![d].writing = TRUE]
                      /\ UNCHANGED <<sum, minInc, zeroCalls>>
    /\ UNCHANGED <<viewer, call, panel, kind, pc, aborted, sink, zx, tmp, install, install0,
                   comp, verified, extracted, steps, err>>

\* the response ends: response.pipe(file) ends the destination stream
DlEnd(d) ==
    /\ ~Busy
    /\ dl[d].st = "streaming"
    /\ dl[d].total = 0 \/ dl[d].downloaded = dl[d].total
    /\ dl' = [dl EXCEPT ![d] = CloseFile([@ EXCEPT !.st = "ended"])]
    /\ UNCHANGED <<viewer, call, panel, kind, pc, aborted, sink, sum, minInc, zeroCalls, zx, tmp, install, install0,
                   comp, verified, extracted, steps, err>>

\* the chunks written to the file have reached the disk
DlWritten(d) ==
    /\ ~Busy
    /\ dl[d].writing
    /\ dl' = [dl EXCEPT ![d].writing = FALSE]
    /\ UNCHANGED <<viewer, call, panel, kind, pc, aborted, sink, sum, minInc, zeroCalls, zx, tmp, install, install0,
                   comp, verified, extracted, steps, err>>

\* file.on('finish', () => { ... }): the stream was ended, by the pipe or by
\* close(), and everything written has reached the disk; before the response
\* there is no listener and the stream just closes
DlFinish(d) ==
    /\ dl[d].fstream = "ending"
    /\ ~dl[d].writing
    /\ IF dl[d].onFinish
       THEN /\ Report(IF ClosingInc(dl[d].s, dl[d].r, dl[d].lastOverall) > 0
                      THEN <<ClosingInc(dl[d].s, dl[d].r, dl[d].lastOverall)>> ELSE <<>>)
            /\ dl' = [dl EXCEPT ![d].fstream = "finished"]
       ELSE /\ dl' = [dl EXCEPT ![d].fstream = "closed"]
            /\ UNCHANGED <<sum, minInc, zeroCalls>>
    /\ UNCHANGED <<viewer, call, panel, kind, pc, aborted, sink, zx, tmp, install, install0,
                   comp, verified, extracted, steps, err>>

\* file.close((err) => err ? done(err) : done()): the stream has closed
DlClose(d) ==
    /\ ~Busy
    /\ dl[d].fstream = "finished"
    /\ dl' = [dl EXCEPT ![d] = Settle([@ EXCEPT !.fstream = "closed"], NoError)]
    /\ UNCHANGED <<viewer, call, panel, kind, pc, aborted, sink, sum, minInc, zeroCalls, zx, tmp, install, install0,
                   comp, verified, extracted, steps, err>>

\* the peer closes the connection before the body is complete: node destroys
\* the response ('aborted' and 'error' on the response, 'close' on the
\* request); the response has a 'data' listener and the pipe only, so there is
\* no 'end', the pipe does not end the file and the request emits no 'error'
DlAborted(d) ==
    /\ ~Busy
    /\ dl[d].st = "streaming"
    /\ dl[d].total = 0 \/ dl[d].downloaded < dl[d].total
    /\ dl' = [dl EXCEPT ![d].st = "aborted"]
    /\ UNCHANGED <<viewer, call, panel, kind, pc, aborted, sink, sum, minInc, zeroCalls, zx, tmp, install, install0,
                   comp, verified, extracted, steps, err>>

\* .on('error', (err) => { ... }): the connection failed
OnRequestError(rec) ==
    Settle(Unlink(CloseFile([rec EXCEPT !.st = "errored"])), NetError)

DlReqError(d) ==
    /\ ~Busy
    /\ dl[d].st \in {"requested", "streaming"}
    /\ dl' = [dl EXCEPT ![d] = OnRequestError(@)]
    /\ UNCHANGED <<viewer, call, panel, kind, pc, aborted, sink, sum, minInc, zeroCalls, zx, tmp, install, install0,
                   comp, verified, extracted, steps, err>>

\* abortSignal.addEventListener('abort', ...): both listeners of one call, in
\* the order they were added (req.destroy / response.destroy, file.close,
\* fs.unlink, done(new Error('Download cancelled')))
OnAbortKeepFile(rec) ==
    Settle(CloseFile(
        [rec EXCEPT !.st = IF @ \in {"requested", "streaming"} THEN "destroyed" ELSE @]),
        Cancelled)
OnAbort(rec) ==
    Settle(Unlink(CloseFile(
        [rec EXCEPT !.st = IF @ \in {"requested", "streaming"} THEN "destroyed" ELSE @])),
        Cancelled)

\* the owner of the signal aborts it: every listener still registered runs
Abort ==
    /\ ~Busy
    /\ Running
    /\ ~aborted
    /\ aborted' = TRUE
    /\ dl' = [d \in DlIds |-> IF dl[d].listener THEN OnAbort(dl[d]) ELSE dl[d]]
    /\ UNCHANGED <<viewer, call, panel, kind, pc, sink, sum, minInc, zeroCalls, zx, tmp, install, install0,
                   comp, verified, extracted, steps, err>>

\* -------------------------------------------------- extractZipWithProgress

\* const total = files.length || 1
TotalOf(files) == IF files = 0 THEN 1 ELSE files

\* extractZipWithProgress(zipPath, dest, progress, start, range) up to its first
\* await; src is "download" when zipPath is the file the run has downloaded
ExtractZip(start, range, dest, src) ==
    [NoZip EXCEPT !.st = "opening", !.startArg = start, !.rangeArg = range,
                  !.dest = dest, !.src = src]

\* unzipper opens zipPath again for the directory and for every entry's stream
\* (fs.createReadStream(zipPath, ...)): the path must still exist
Readable(z) == z.src = "download" => dl["archive"].file

\* entries of an archive: a directory with mode 0o40755 and the DOS directory
\* flag, files without attributes, with DOS attributes only, with mode
\* 0o100755 and with the file-type bits only
Entries ==
    {[type |-> "Directory", hi |-> 16877, lo |-> 16],
     [type |-> "File", hi |-> 0, lo |-> 0],
     [type |-> "File", hi |-> 0, lo |-> 32],
     [type |-> "File", hi |-> 33261, lo |-> 0],
     [type |-> "File", hi |-> 32768, lo |-> 0]}

\* const attr = file.externalFileAttributes >>> 16: the high 16 bits
AttrOf(e) == e.hi % 65536

\* the mode chmod is called with for an entry (attr & 0o777), -1 when it is
\* not called: directories, and files with attr = 0
ChmodModeRaw(e) ==
    IF e.type # "Directory" /\ AttrOf(e) > 0 THEN AttrOf(e) ELSE -1
ChmodMode(e) ==
    IF e.type # "Directory" /\ AttrOf(e) > 0 THEN AttrOf(e) % 512 ELSE -1

\* lines 57..80 for one entry: chmod is tried for it or not, and an
\* exception of chmod is caught and dropped
WriteEntry(e, throws) ==
    [type |-> e.type, hi |-> e.hi, lo |-> e.lo, mode |-> ChmodMode(e),
     failed |-> (throws /\ ChmodMode(e) # -1)]

\* the increments of the iteration that completes entry number `processed`, and,
\* after the last entry, the closing increment of lines 100..105
EntryIncs(z, processed) ==
    LET overall == Overall(z.s, z.r, processed, TotalOf(z.files))
        last == LastOf(overall, z.lastOverall)
        closing == ClosingInc(z.s, z.r, last)
    IN  <<IncOf(overall, z.lastOverall)>>
        \o (IF processed = z.files /\ closing > 0 THEN <<closing>> ELSE <<>>)

\* unzipper.Open.file and mkdir(dest) have resolved: lines 39..51, and for an
\* archive without entries the closing report and the return; with entries,
\* the stream of the first one is opened (line 66)
ZipOpened ==
    /\ ~Busy
    /\ zx.st = "opening"
    /\ Readable(zx)
    /\ \E n \in 0..MaxEntries :
          LET s == ClampStart(zx.startArg)
              r == ClampRange(zx.startArg, zx.rangeArg)
          IN  /\ zx' = [zx EXCEPT !.files = n, !.s = s, !.r = r, !.lastOverall = s,
                                  !.processed = 0,
                                  !.st = IF n = 0 THEN "resolved" ELSE "entries"]
              /\ Report(IF n = 0 /\ ClosingInc(s, r, s) > 0
                        THEN <<ClosingInc(s, r, s)>> ELSE <<>>)
    /\ UNCHANGED <<viewer, call, panel, kind, pc, aborted, sink, dl, tmp, install, install0,
                   comp, verified, extracted, steps, err>>

\* one entry has been written (lines 54..97), with or without a chmod that
\* may throw; after the last one the function
\* returns, otherwise the stream of the next entry is opened (line 66), which
\* throws when zipPath is gone
ZipEntry ==
    /\ ~Busy
    /\ zx.st = "entries"
    /\ LET processed == zx.processed + 1
           overall == Overall(zx.s, zx.r, processed, TotalOf(zx.files))
       IN  /\ Report(EntryIncs(zx, processed))
           /\ \E e \in Entries, throws \in BOOLEAN :
                /\ throws => ChmodMode(e) # -1
                /\ zx' = [zx EXCEPT !.processed = processed,
                                    !.entry = WriteEntry(e, throws),
                                    !.lastOverall = IF sink THEN LastOf(overall, @) ELSE @,
                                    !.st = IF processed = zx.files THEN "resolved"
                                           ELSE IF Readable(zx) THEN "entries"
                                           ELSE "rejected"]
    /\ install' = IF zx.dest = "install" THEN install \cup {"new"} ELSE install
    /\ UNCHANGED <<viewer, call, panel, kind, pc, aborted, sink, dl, tmp, install0,
                   comp, verified, extracted, steps, err>>

\* opening the archive or writing an entry throws (a corrupt archive, a full
\* disk, zipPath gone); an entry may be partly written
ZipFail ==
    /\ ~Busy
    /\ zx.st \in {"opening", "entries"}
    /\ zx' = [zx EXCEPT !.st = "rejected"]
    /\ \E wrote \in BOOLEAN :
          install' = IF zx.dest = "install" /\ zx.st = "entries" /\ wrote
                     THEN install \cup {"new"} ELSE install
    /\ UNCHANGED <<viewer, call, panel, kind, pc, aborted, sink, sum, minInc, zeroCalls, dl, tmp, install0,
                   comp, verified, extracted, steps, err>>

\* --------------------------------------------- one sub-operation on its own

\* start and range arguments a caller may pass
Starts == {-5, 0, 35, 60, 97, 105}
Ranges == {-3, 0, 1, 10, 35, 100, 120}

InitSub ==
    /\ kind = "sub"
    /\ pc = "sub"
    /\ aborted \in BOOLEAN
    /\ sink \in BOOLEAN
    /\ sum = 0
    /\ minInc = 0
    /\ zeroCalls = FALSE
    /\ \E start \in Starts, range \in Ranges, op \in {"download", "zip"} :
          /\ dl = [d \in DlIds |-> IF op = "download" /\ d = "archive"
                                   THEN DownloadFile("archive", start, range) ELSE NoDownload]
          /\ zx = IF op = "zip" THEN ExtractZip(start, range, "tmp", "disk") ELSE NoZip
    /\ tmp = "exists"
    /\ install = {}
    /\ install0 = {}
    /\ comp = NoComp
    /\ verified = NotVerified
    /\ extracted = FALSE
    /\ steps = <<>>
    /\ err = NoError
    /\ viewer = NoViewer
    /\ call = NoCall
    /\ panel = NoPanel

NextSub ==
    \/ \E d \in DlIds : DlResponse(d)
    \/ \E d \in DlIds : DlData(d)
    \/ \E d \in DlIds : DlEnd(d)
    \/ \E d \in DlIds : DlWritten(d)
    \/ \E d \in DlIds : DlFinish(d)
    \/ \E d \in DlIds : DlClose(d)
    \/ \E d \in DlIds : DlReqError(d)
    \/ \E d \in DlIds : DlAborted(d)
    \/ Abort
    \/ ZipOpened
    \/ ZipEntry
    \/ ZipFail

SpecSub == InitSub /\ [][NextSub]_vars

\* the same with fair scheduling: the events of the network and of the file
\* that are due do happen; failures and cancellation need not
SubFairness ==
    \A d \in DlIds :
        /\ WF_vars(DlResponse(d))
        /\ WF_vars(DlData(d) \/ DlEnd(d))
        /\ WF_vars(DlWritten(d))
        /\ WF_vars(DlFinish(d))
        /\ WF_vars(DlClose(d))

SpecSubFair == InitSub /\ [][NextSub]_vars /\ SubFairness

\* ------------------------------------------------------------ orchestrators

\* fs.rmSync(tmpDir, { recursive: true, force: true }): every download of the
\* run was written inside tmpDir
RemoveTmp(d) == [x \in DlIds |-> [d[x] EXCEPT !.file = FALSE]]

\* catch (err) { fs.rmSync(tmpDir, ...); throw err; }
CatchRetry(e, started) ==
    /\ tmp' = tmp
    /\ dl' = [dl EXCEPT !["archive"] = DownloadFile("archive", 0, 35)]
    /\ pc' = "dlArchive"
    /\ err' = NoError
    /\ steps' = steps \o started \o <<"dlArchive">>
Catch(e, started) ==
    /\ tmp' = "removed"
    /\ dl' = RemoveTmp(dl)
    /\ pc' = "failed"
    /\ err' = e
    /\ steps' = steps \o started \o <<"cleanup", "failed">>

\* an exception that leaves the function outside of its try block
ThrowOutside(e) ==
    /\ pc' = "failed"
    /\ err' = e
    /\ steps' = steps \o <<"failed">>

\* the last statements of the try block: fs.rmSync(tmpDir, ...) and the return
Finish(started) ==
    /\ tmp' = "removed"
    /\ dl' = RemoveTmp(dl)
    /\ pc' = "done"
    /\ err' = NoError
    /\ steps' = steps \o started \o <<"cleanup", "done">>

\* an error thrown by a file-system call (mkdirSync, renameSync, copyFileSync)
FsError == Err("file system error")

\* await downloadFile(...) returned: the promise was resolved, not rejected
AwaitReturnsAlways(rec) == TRUE
AwaitReturns(rec) == rec.settled = "ok"

\* what a rejected downloadFile threw
ErrorOf(rec) == rec.error

\* verifySha256: hash.digest('hex') as a string of lowercase hex digits that
\* differs for different file contents
ArchiveContents == {"intact", "corrupt"}
Sha256Hex(content) == IF content = "intact" THEN <<"a", "b">> ELSE <<"b", "a">>

\* the characters of a sidecar file: hex digits of either case and white space
SidecarChars == {"a", "b", "A", " "}
IsSpace(c) == c = " "
SidecarTexts == UNION {[1..n -> SidecarChars] : n \in 0..MaxSidecar}

\* fs.readFileSync(sha256Path, 'utf8').split(/\s+/)[0]: the characters before
\* the first white space (none when the text starts with white space)
RECURSIVE FirstField(_)
FirstField(text) ==
    IF text = <<>> \/ IsSpace(Head(text)) THEN <<>>
    ELSE <<Head(text)>> \o FirstField(Tail(text))

\* what the sidecar of a run is read as
SidecarTokens == {FirstField(text) : text \in SidecarTexts}

\* new Error(`SHA256 mismatch: expected ${expected}, got ${actual}`)
VerifyError(expected, actual) ==
    [msg |-> "SHA256 mismatch", expected |-> expected, actual |-> actual]
VerifyAlways(content, expected) == TRUE
VerifySha256(content, expected) == Sha256Hex(content) = expected

\* const base = n > 0 ? Math.floor(componentsBudget / n) : 0
BaseOf(n) == IF n > 0 THEN componentsBudget \div n ELSE 0
\* let rem = n > 0 ? (componentsBudget % n) : 0
RemOf(n) == IF n > 0 THEN componentsBudget % n ELSE 0

\* lines 750..762: the loop variables before the first iteration
ComponentLoop(n) ==
    [n |-> n, idx |-> 0, base |-> BaseOf(n), rem |-> RemOf(n),
     cursor |-> componentsStart, budget |-> 0,
     folder |-> "found", zips |-> 1..n, unzipped |-> <<>>]

\* fs.readdirSync(osContentPath) throws: the tarball held no such folder
MissingFolder == [NoComp EXCEPT !.folder = "missing"]

\* new Error(`Expected folder '${osFolder}' not found in extracted SDK. ...`)
ExpectedFolderError == Err("Expected folder not found in extracted SDK")

\* const thisBudget = base + (rem > 0 ? 1 : 0); if (rem > 0) { rem--; }
ThisBudgetFlat(c) == c.base
ThisBudget(c) == c.base + (IF c.rem > 0 THEN 1 ELSE 0)
BeginComponent(c) ==
    [c EXCEPT !.budget = ThisBudget(c), !.rem = IF @ > 0 THEN @ - 1 ELSE @]

\* cursor += thisBudget; fs.unlinkSync(zipPath); the loop moves to the next zip
EndComponentKeepZip(c) ==
    [c EXCEPT !.cursor = @ + c.budget, !.idx = @ + 1, !.unzipped = Append(@, c.idx + 1)]
EndComponent(c) ==
    [c EXCEPT !.cursor = @ + c.budget, !.idx = @ + 1,
              !.unzipped = Append(@, c.idx + 1), !.zips = @ \ {c.idx + 1}]

\* downloadAndInstallSdk, lines 779..796, after the component loop
SdkFinalize(incs) ==
    \E renameOk \in BOOLEAN :
        IF renameOk
        THEN /\ install' = {"new"}
             /\ Report(incs \o <<0, 3, 0, 2>>)
             /\ Finish(<<"relocate">>)
        ELSE /\ install' = {}
             /\ Report(incs \o <<0>>)
             /\ Catch(FsError, <<"relocate">>)

\* downloadAndInstallSdk up to its first await (lines 704..729)
SdkStart ==
    /\ kind = "sdk"
    /\ pc = "init"
    /\ tmp' = "exists"
    /\ \E mkdirOk \in BOOLEAN :
          IF mkdirOk
          THEN /\ Report(<<0>>)
               /\ dl' = [dl EXCEPT !["archive"] = DownloadFile("archive", 0, 35)]
               /\ pc' = "dlArchive"
               /\ steps' = steps \o <<"dlArchive">>
               /\ err' = err
          ELSE /\ ThrowOutside(FsError)
               /\ UNCHANGED <<sum, minInc, zeroCalls, dl>>
    /\ UNCHANGED <<viewer, call, panel, kind, aborted, sink, zx, install, install0, comp, verified, extracted>>

\* after await downloadFile(downloadUrl, tarPath, ...) (lines 731..732)
SdkAfterArchive ==
    /\ kind = "sdk"
    /\ pc = "dlArchive"
    /\ dl["archive"].settled # "no"
    /\ IF AwaitReturns(dl["archive"])
       THEN /\ Report(<<0>>)
            /\ dl' = [dl EXCEPT !["sidecar"] = DownloadFile("sidecar", 35, 10)]
            /\ pc' = "dlChecksum"
            /\ steps' = steps \o <<"dlChecksum">>
            /\ UNCHANGED <<tmp, err>>
       ELSE /\ Catch(ErrorOf(dl["archive"]), <<>>)
            /\ UNCHANGED <<sum, minInc, zeroCalls>>
    /\ UNCHANGED <<viewer, call, panel, kind, aborted, sink, zx, install, install0, comp, verified, extracted>>

\* after await downloadFile(sha256Url, sha256Path, ...) (lines 734..735)
SdkAfterChecksum ==
    /\ kind = "sdk"
    /\ pc = "dlChecksum"
    /\ dl["sidecar"].settled # "no"
    /\ IF AwaitReturns(dl["sidecar"])
       THEN /\ Report(<<0>>)
            /\ verified' = [verified EXCEPT !.st = "running"]
            /\ pc' = "verify"
            /\ steps' = steps \o <<"verify">>
            /\ UNCHANGED <<tmp, err, dl>>
       ELSE /\ Catch(ErrorOf(dl["sidecar"]), <<>>)
            /\ UNCHANGED <<sum, minInc, zeroCalls, verified>>
    /\ UNCHANGED <<viewer, call, panel, kind, aborted, sink, zx, install, install0, comp, extracted>>

\* verifySha256 has read the archive; then lines 736..741
SdkAfterVerify ==
    /\ kind = "sdk"
    /\ pc = "verify"
    /\ \E content \in ArchiveContents, expected \in SidecarTokens :
          IF VerifySha256(content, expected)
          THEN /\ verified' = [st |-> "ok", content |-> content, expected |-> expected]
               /\ IF aborted
                  THEN /\ Report(<<5>>)
                       /\ Catch(Cancelled, <<>>)
                  ELSE /\ Report(<<5, 0>>)
                       /\ pc' = "extractTar"
                       /\ steps' = steps \o <<"extractPrimary">>
                       /\ UNCHANGED <<tmp, err, dl>>
          ELSE /\ verified' = [st |-> "mismatch", content |-> content, expected |-> expected]
               /\ Catch(VerifyError(expected, Sha256Hex(content)), <<>>)
               /\ UNCHANGED <<sum, minInc, zeroCalls>>
    /\ UNCHANGED <<viewer, call, panel, kind, aborted, sink, zx, install, install0, comp, extracted>>

\* tar.x has settled; then lines 742..773, and lines 779..796 when there is no zip
SdkTarSettled(maxZips) ==
    /\ kind = "sdk"
    /\ pc = "extractTar"
    /\ \E tarOk \in BOOLEAN, osFolder \in BOOLEAN, n \in 0..maxZips :
          IF ~tarOk
          THEN /\ Catch(Err("tar error"), <<>>)
               /\ UNCHANGED <<sum, minInc, zeroCalls, extracted, comp, zx, install>>
          ELSE /\ extracted' = TRUE
               /\ IF aborted
                  THEN /\ Report(<<10>>)
                       /\ Catch(Cancelled, <<>>)
                       /\ UNCHANGED <<comp, zx, install>>
                  ELSE IF ~osFolder
                  THEN /\ Report(<<10>>)
                       /\ Catch(Err("ENOENT"), <<>>)
                       /\ comp' = MissingFolder
                       /\ UNCHANGED <<zx, install>>
                  ELSE IF n = 0
                  THEN /\ comp' = ComponentLoop(0)
                       /\ SdkFinalize(<<10, componentsBudget>>)
                       /\ zx' = zx
                  ELSE /\ comp' = BeginComponent(ComponentLoop(n))
                       /\ zx' = ExtractZip(comp'.cursor, comp'.budget, "tmp", "disk")
                       /\ Report(<<10, 0>>)
                       /\ pc' = "components"
                       /\ steps' = steps \o <<"extractComponent">>
                       /\ UNCHANGED <<tmp, err, dl, install>>
    /\ UNCHANGED <<viewer, call, panel, kind, aborted, sink, install0, verified>>

SdkAfterTar == SdkTarSettled(MaxZips)

\* after await extractZipWithProgress(zipPath, osContentPath, ...) (lines 774..777),
\* then the next iteration (lines 765..773) or lines 779..796
SdkAfterZip ==
    /\ kind = "sdk"
    /\ pc = "components"
    /\ zx.st \in {"resolved", "rejected"}
    /\ IF zx.st = "rejected"
       THEN /\ Catch(Err("zip error"), <<>>)
            /\ UNCHANGED <<sum, minInc, zeroCalls, comp, zx, install>>
       ELSE IF comp.idx + 1 < comp.n
       THEN IF aborted
            THEN /\ comp' = EndComponent(comp)
                 /\ Catch(Cancelled, <<>>)
                 /\ UNCHANGED <<sum, minInc, zeroCalls, zx, install>>
            ELSE /\ comp' = BeginComponent(EndComponent(comp))
                 /\ zx' = ExtractZip(comp'.cursor, comp'.budget, "tmp", "disk")
                 /\ steps' = steps \o <<"extractComponent">>
                 /\ UNCHANGED <<sum, minInc, zeroCalls, pc, tmp, err, dl, install>>
       ELSE /\ comp' = EndComponent(comp)
            /\ SdkFinalize(<<>>)
            /\ zx' = zx
    /\ UNCHANGED <<viewer, call, panel, kind, aborted, sink, install0, verified, extracted>>

\* installCmdTools / manualInstallCmdTools.doInstall: mkdirSync(CMD_PATH),
\* findCmdToolsSourceDir, the move of every entry into CMD_PATH, chmod of bin/*
\* (lines 914..940 and 154..178); incs are the increments of the closing reports
CmdRelocate(incs) ==
    \E outcome \in {"moved", "notfound", "halfway"}, keepsOld \in BOOLEAN :
        IF outcome = "moved"
        THEN /\ install' = IF keepsOld THEN install \cup {"new"} ELSE {"new"}
             /\ Report(incs)
             /\ Finish(<<"relocate">>)
        ELSE IF outcome = "notfound"
        THEN /\ install' = install
             /\ UNCHANGED <<sum, minInc, zeroCalls>>
             /\ Catch(Err("Could not locate command line tools folder in the extracted archive."), <<"relocate">>)
        ELSE /\ install' = install \cup {"new"}
             /\ UNCHANGED <<sum, minInc, zeroCalls>>
             /\ Catch(FsError, <<"relocate">>)

\* getCmdToolsDownloadUrl(): the configured (or default) URL, or "throws" when
\* none is configured for the platform
GetCmdToolsDownloadUrl(configured) == IF configured THEN "archive" ELSE "throws"

\* try { url = getCmdToolsDownloadUrl(); } catch (e) { manual flow; return; }
FallsBackNever(url) == FALSE
FallsBack(url) == url = "throws"

\* installCmdTools up to its first await (lines 891..909), or the hand-over to
\* manualInstallCmdTools, which awaits the open dialog (lines 124..131)
CmdStart ==
    /\ kind = "cmd"
    /\ pc = "init"
    /\ \E urlConfigured \in BOOLEAN :
          IF ~FallsBack(GetCmdToolsDownloadUrl(urlConfigured))
          THEN /\ tmp' = "exists"
               /\ Report(<<0>>)
               /\ dl' = [dl EXCEPT !["archive"] =
                             DownloadFile(GetCmdToolsDownloadUrl(urlConfigured), 0, 50)]
               /\ pc' = "dlArchive"
               /\ steps' = steps \o <<"dlArchive">>
               /\ kind' = kind
          ELSE /\ kind' = "manual"
               /\ pc' = "dialog"
               /\ UNCHANGED <<tmp, sum, minInc, zeroCalls, dl, steps>>
    /\ UNCHANGED <<viewer, call, panel, aborted, sink, zx, install, install0, comp, verified, extracted, err>>

\* after await showOpenDialog (lines 133..150)
ManualPicked ==
    /\ kind = "manual"
    /\ pc = "dialog"
    /\ \E picked \in BOOLEAN :
          IF picked
          THEN /\ tmp' = "exists"
               /\ Report(<<0>>)
               /\ zx' = ExtractZip(0, 100, "tmp", "disk")
               /\ pc' = "extractZip"
               /\ steps' = steps \o <<"extractPrimary">>
               /\ err' = err
          ELSE /\ ThrowOutside(Err("No ZIP file selected."))
               /\ UNCHANGED <<tmp, sum, minInc, zeroCalls, zx>>
    /\ UNCHANGED <<viewer, call, panel, kind, aborted, sink, dl, install, install0, comp, verified, extracted>>

\* after await extractZipWithProgress in doInstall (lines 152..183)
ManualAfterZip ==
    /\ kind = "manual"
    /\ pc = "extractZip"
    /\ zx.st \in {"resolved", "rejected"}
    /\ IF zx.st = "rejected"
       THEN /\ Catch(Err("zip error"), <<>>)
            /\ UNCHANGED <<sum, minInc, zeroCalls, install>>
       ELSE IF aborted
       THEN /\ Catch(Cancelled, <<>>)
            /\ UNCHANGED <<sum, minInc, zeroCalls, install>>
       ELSE CmdRelocate(<<0>>)
    /\ UNCHANGED <<viewer, call, panel, kind, aborted, sink, zx, install0, comp, verified, extracted>>

\* after await downloadFile(url, zipPath, ...) (lines 911..912)
CmdAfterArchive ==
    /\ kind = "cmd"
    /\ pc = "dlArchive"
    /\ dl["archive"].settled # "no"
    /\ IF AwaitReturns(dl["archive"])
       THEN /\ Report(<<0>>)
            /\ zx' = ExtractZip(50, 45, "tmp", "download")
            /\ pc' = "extractZip"
            /\ steps' = steps \o <<"extractPrimary">>
            /\ UNCHANGED <<tmp, err, dl>>
       ELSE /\ Catch(ErrorOf(dl["archive"]), <<>>)
            /\ UNCHANGED <<sum, minInc, zeroCalls, zx>>
    /\ UNCHANGED <<viewer, call, panel, kind, aborted, sink, install, install0, comp, verified, extracted>>

\* after await extractZipWithProgress(zipPath, extractPath, ...) (lines 914..945)
CmdAfterZip ==
    /\ kind = "cmd"
    /\ pc = "extractZip"
    /\ zx.st \in {"resolved", "rejected"}
    /\ IF zx.st = "rejected"
       THEN /\ Catch(Err("zip error"), <<>>)
            /\ UNCHANGED <<sum, minInc, zeroCalls, install>>
       ELSE CmdRelocate(<<5, 0>>)
    /\ UNCHANGED <<viewer, call, panel, kind, aborted, sink, zx, install0, comp, verified, extracted>>

\* installEmulator up to its first await (lines 1029..1042)
EmuStart ==
    /\ kind = "emu"
    /\ pc = "init"
    /\ \E mkdirOk \in BOOLEAN :
          IF mkdirOk
          THEN /\ tmp' = "exists"
               /\ Report(<<0>>)
               /\ dl' = [dl EXCEPT !["archive"] = DownloadFile("archive", 0, 50)]
               /\ pc' = "dlArchive"
               /\ steps' = steps \o <<"dlArchive">>
               /\ err' = err
          ELSE /\ Catch(FsError, <<>>)
               /\ UNCHANGED <<sum, minInc, zeroCalls>>
    /\ UNCHANGED <<viewer, call, panel, kind, aborted, sink, zx, install, install0, comp, verified, extracted>>

\* after await downloadFile(EMULATOR_URL, tmpZip, ...) (lines 1044..1045)
EmuAfterArchive ==
    /\ kind = "emu"
    /\ pc = "dlArchive"
    /\ dl["archive"].settled # "no"
    /\ IF AwaitReturns(dl["archive"])
       THEN /\ Report(<<0>>)
            /\ zx' = ExtractZip(50, 45, "install", "download")
            /\ pc' = "extractZip"
            /\ steps' = steps \o <<"extractPrimary">>
            /\ UNCHANGED <<tmp, err, dl>>
       ELSE /\ Catch(ErrorOf(dl["archive"]), <<>>)
            /\ UNCHANGED <<sum, minInc, zeroCalls, zx>>
    /\ UNCHANGED <<viewer, call, panel, kind, aborted, sink, install, install0, comp, verified, extracted>>

\* after await extractZipWithProgress(tmpZip, EMULATOR_DIR, ...) (lines 1047..1060)
EmuAfterZip ==
    /\ kind = "emu"
    /\ pc = "extractZip"
    /\ zx.st \in {"resolved", "rejected"}
    /\ IF zx.st = "rejected"
       THEN /\ Catch(Err("zip error"), <<>>)
            /\ UNCHANGED <<sum, minInc, zeroCalls>>
       ELSE /\ Report(<<5, 0>>)
            /\ Finish(<<>>)
    /\ UNCHANGED <<viewer, call, panel, kind, aborted, sink, zx, install, install0, comp, verified, extracted>>

\* ----------------------------------------------------- one orchestrator run

\* the SDK manager starts a run with a progress reporter and the signal of a
\* new AbortController; the install directory holds a previous install or not
Init ==
    /\ kind \in {"sdk", "cmd", "emu"}
    /\ pc = "init"
    /\ aborted = FALSE
    /\ sink = TRUE
    /\ sum = 0
    /\ minInc = 0
    /\ zeroCalls = FALSE
    /\ dl = [d \in DlIds |-> NoDownload]
    /\ zx = NoZip
    /\ tmp = "none"
    /\ install0 \in {{}, {"old"}}
    /\ install = install0
    /\ comp = NoComp
    /\ verified = NotVerified
    /\ extracted = FALSE
    /\ steps = <<>>
    /\ err = NoError
    /\ viewer = NoViewer
    /\ call = NoCall
    /\ panel = NoPanel

Next ==
    \/ SdkStart
    \/ SdkAfterArchive
    \/ SdkAfterChecksum
    \/ SdkAfterVerify
    \/ SdkAfterTar
    \/ SdkAfterZip
    \/ CmdStart
    \/ ManualPicked
    \/ ManualAfterZip
    \/ CmdAfterArchive
    \/ CmdAfterZip
    \/ EmuStart
    \/ EmuAfterArchive
    \/ EmuAfterZip
    \/ \E d \in DlIds : DlResponse(d)
    \/ \E d \in DlIds : DlData(d)
    \/ \E d \in DlIds : DlEnd(d)
    \/ \E d \in DlIds : DlWritten(d)
    \/ \E d \in DlIds : DlFinish(d)
    \/ \E d \in DlIds : DlClose(d)
    \/ \E d \in DlIds : DlReqError(d)
    \/ \E d \in DlIds : DlAborted(d)
    \/ Abort
    \/ ZipOpened
    \/ ZipEntry
    \/ ZipFail

Spec == Init /\ [][Next]_vars

\* ------------------------------- the component loop of downloadAndInstallSdk

\* a downloadFile call that has resolved (a response without Content-Length)
Downloaded(url, start, range) ==
    [NoDownload EXCEPT !.url = url, !.st = "ended", !.settled = "ok", !.status = 200,
                       !.file = TRUE, !.fstream = "closed", !.listener = TRUE,
                       !.onFinish = TRUE, !.lastOverall = start + range,
                       !.s = start, !.r = range, !.startArg = start, !.rangeArg = range]

\* an SDK run suspended at await extractTarball(...): both downloads have
\* resolved and the checksum has matched (line 741)
InitPart ==
    /\ kind = "sdk"
    /\ pc = "extractTar"
    /\ aborted = FALSE
    /\ sink = TRUE
    /\ sum = 50
    /\ minInc = 0
    /\ zeroCalls = FALSE
    /\ dl = [d \in DlIds |-> IF d = "archive" THEN Downloaded(d, 0, 35)
                             ELSE Downloaded(d, 35, 10)]
    /\ zx = NoZip
    /\ tmp = "exists"
    /\ install0 \in {{}, {"old"}}
    /\ install = install0
    /\ comp = NoComp
    /\ verified = [st |-> "ok", content |-> "intact", expected |-> Sha256Hex("intact")]
    /\ extracted = FALSE
    /\ steps = <<"dlArchive", "dlChecksum", "verify", "extractPrimary">>
    /\ err = NoError
    /\ viewer = NoViewer
    /\ call = NoCall
    /\ panel = NoPanel

SdkAfterTarParts == SdkTarSettled(MaxParts)

NextPart ==
    \/ SdkAfterTarParts
    \/ SdkAfterZip
    \/ ZipOpened
    \/ ZipEntry
    \/ ZipFail
    \/ Abort

SpecPart == InitPart /\ [][NextPart]_vars

\* ------------------------------------------------------------------ claims

\* the arguments of the sub-operation SpecSub runs
SubStart == IF zx.st # "idle" THEN zx.startArg ELSE dl["archive"].startArg
SubRange == IF zx.st # "idle" THEN zx.rangeArg ELSE dl["archive"].rangeArg

\* a ProgressBudget: start in 0..100, range in 0..100-start
ValidBudget(start, range) == start \in 0..100 /\ range \in 0..(100 - start)

\* round(start) plus the sum of the increments reported so far
SubOverall == SubStart + sum

C1_Bounds ==
    (kind = "sub" /\ ValidBudget(SubStart, SubRange)) =>
        /\ minInc >= 0
        /\ SubStart <= SubOverall
        /\ SubOverall <= SubStart + SubRange

\* C1: for every budget (start, range) and every sequence of chunk arrivals
\* (downloadFile, any Content-Length > 0) or entry completions
\* (extractZipWithProgress), every reported increment is >= 0, the running
\* overall value never decreases, and it stays within [start, start+range].
C1_ProgressMonotoneBounded ==
    [](C1_Bounds) /\ [][SubOverall' >= SubOverall]_vars

\* C1 witness: a download with a declared length has reported part of its range
C1_Witness ==
    /\ kind = "sub" /\ sink /\ ValidBudget(SubStart, SubRange)
    /\ dl["archive"].st = "streaming"
    /\ dl["archive"].total > 0
    /\ dl["archive"].downloaded > 0
    /\ dl["archive"].downloaded < dl["archive"].total
    /\ sum > 0 /\ sum < SubRange

\* C2: whenever a sub-operation completes normally (the destination stream of
\* downloadFile has finished and the promise resolved, or
\* extractZipWithProgress has processed every entry), the running overall
\* value is exactly round(start+range), also for an archive without entries
\* and for a response without Content-Length.
C2_ProgressClosure ==
    (kind = "sub" /\ sink /\ ValidBudget(SubStart, SubRange)) =>
        /\ dl["archive"].settled = "ok" => SubOverall = SubStart + SubRange
        /\ zx.st = "resolved" => SubOverall = SubStart + SubRange

\* C2 witness: a download without Content-Length has resolved with a budget > 0
C2_Witness ==
    /\ kind = "sub" /\ sink /\ ValidBudget(SubStart, SubRange) /\ SubRange > 0
    /\ dl["archive"].settled = "ok"
    /\ dl["archive"].total = 0
    /\ dl["archive"].downloaded > 0

\* C3 (as claimed): over one orchestrator run the sum of the reported
\* increments never decreases, never exceeds 100, is exactly 100 when the run
\* completes, and no increment is reported after a failure or cancellation.
C3_RunProgress ==
    /\ [](sum <= 100 /\ (pc = "done" => sum = 100))
    /\ [][sum' >= sum /\ (pc = "failed" => sum' = sum)]_vars

\* C4 (as claimed): once the temp directory has been created it no longer
\* exists when the run has returned or thrown, on every exit path.
C4_TmpRemoved ==
    (pc \in {"done", "failed"} /\ tmp # "none") => tmp = "removed"

\* C5: if the signal fires while downloadFile is in flight (before the
\* response or mid-stream), the request/response and the file are closed, no
\* file remains at the destination, and the promise rejects with 'Download
\* cancelled', which no later event replaces by another error.
C5_DownloadCancel ==
    /\ [](\A d \in DlIds :
            dl[d].error = Cancelled =>
                /\ ~dl[d].file
                /\ dl[d].st \notin {"requested", "streaming"}
                /\ dl[d].fstream # "open")
    /\ [][\A d \in DlIds :
            /\ (~aborted /\ aborted' /\ dl[d].st # "idle" /\ dl[d].settled = "no") =>
                   (dl'[d].settled = "rejected" /\ dl'[d].error = Cancelled)
            /\ dl[d].error = Cancelled => dl'[d].error = Cancelled]_vars

\* C5 witness: a download cancelled mid-stream
C5_Witness ==
    /\ kind = "sub"
    /\ dl["archive"].error = Cancelled
    /\ dl["archive"].st = "destroyed"
    /\ dl["archive"].downloaded > 0

\* C6 (as claimed): once the signal has been set during a run, the run aborts
\* at its next checkpoint: it never completes, and the cancelled run has
\* installed nothing and has removed its temp directory.
C6_CancelAborts ==
    aborted =>
        /\ pc # "done"
        /\ (pc = "failed" /\ err = Cancelled) => (install = install0 /\ tmp = "removed")

\* position of a step in the order download archive, download checksum,
\* verify, extract primary, extract components, relocate, cleanup, done/failed
Rank(step) ==
    CASE step = "dlArchive" -> 1
      [] step = "dlChecksum" -> 2
      [] step = "verify" -> 3
      [] step = "extractPrimary" -> 4
      [] step = "extractComponent" -> 5
      [] step = "relocate" -> 6
      [] step = "cleanup" -> 7
      [] step = "done" -> 8
      [] step = "failed" -> 8

Started(step) == \E i \in 1..Len(steps) : steps[i] = step

\* the sub-operations in progress: downloads in flight, verification, tar
\* extraction, zip extraction
InProgress ==
    {d \in DlIds : dl[d].st # "idle" /\ dl[d].settled = "no"}
    \cup (IF pc = "verify" THEN {"verify"} ELSE {})
    \cup (IF pc = "extractTar" THEN {"tar"} ELSE {})
    \cup (IF zx.st \in {"opening", "entries"} THEN {"zip"} ELSE {})

C7_Order ==
    /\ \A i, j \in 1..Len(steps) :
          i < j => \/ Rank(steps[i]) < Rank(steps[j])
                   \/ steps[i] = "extractComponent" /\ steps[j] = "extractComponent"
    /\ (Started("dlChecksum") \/ Started("verify") \/ Started("extractComponent"))
          => kind = "sdk"
    /\ Started("dlChecksum") => Started("dlArchive") /\ dl["archive"].settled = "ok"
    /\ Started("verify") => Started("dlChecksum") /\ dl["sidecar"].settled = "ok"
    /\ Started("extractPrimary") =>
          /\ kind = "sdk" => Started("verify") /\ verified.st = "ok"
          /\ kind \in {"cmd", "emu"} => Started("dlArchive") /\ dl["archive"].settled = "ok"
    /\ Started("extractComponent") => Started("extractPrimary") /\ extracted
    /\ Started("relocate") =>
          /\ Started("extractPrimary")
          /\ kind = "sdk" => extracted /\ (comp.n > 0 => zx.st = "resolved")
          /\ kind # "sdk" => zx.st = "resolved"
    /\ Started("done") =>
          /\ Started("cleanup")
          /\ kind # "emu" => Started("relocate")
          /\ kind = "emu" => Started("extractPrimary") /\ zx.st = "resolved"
    /\ Cardinality(InProgress) <= 1

C8_ChecksumGate ==
    kind = "sdk" =>
        /\ (Started("extractPrimary") \/ extracted \/ install # install0) =>
              /\ dl["sidecar"].settled = "ok"
              /\ verified.st = "ok"
              /\ Sha256Hex(verified.content) = verified.expected
        /\ (verified.st \in {"ok", "mismatch"}
              /\ Sha256Hex(verified.content) # verified.expected) =>
              /\ pc = "failed"
              /\ ~extracted
              /\ ~Started("extractPrimary")
              /\ install = install0

\* C8 witness: a run over a previous install failed on a corrupt archive
C8_Witness ==
    /\ kind = "sdk" /\ verified.st = "mismatch" /\ verified.content = "corrupt"
    /\ install0 = {"old"} /\ pc = "failed"

\* the budget of archive number idx (from 0) of n: floor(35/n), plus one for
\* each of the first 35 mod n archives
SliceBudget(n, idx) ==
    (componentsBudget \div n) + (IF idx < componentsBudget % n THEN 1 ELSE 0)

\* where the slice of archive number idx starts: 60 plus the budgets before it
SliceStart(n, idx) ==
    componentsStart + idx * (componentsBudget \div n) + Min(idx, componentsBudget % n)

\* C9: for every number n >= 0 of component zips (also n > 35) the budgets are
\* floor(35/n) plus one point for each of the first 35 mod n archives, they sum
\* to exactly 35, the slices are contiguous and cover exactly 60..95, and for
\* n = 0 one increment of 35 is reported instead.
C9_BudgetPartition ==
    /\ (pc = "components" /\ zx.st # "rejected") =>
          /\ comp.budget = SliceBudget(comp.n, comp.idx)
          /\ comp.cursor = SliceStart(comp.n, comp.idx)
          /\ zx.startArg = comp.cursor /\ zx.rangeArg = comp.budget
          /\ comp.cursor <= sum /\ sum <= comp.cursor + comp.budget
          /\ zx.st = "resolved" => sum = comp.cursor + comp.budget
    /\ (pc = "done" /\ comp.n > 0) =>
          /\ comp.idx = comp.n
          /\ comp.cursor = componentsStart + componentsBudget
    /\ (kind = "sdk" /\ pc = "done") => sum = 100

\* C9 witness: a run with more component zips than budget points has completed
C9_Witness ==
    /\ kind = "sdk" /\ pc = "done" /\ comp.n > componentsBudget /\ comp.idx = comp.n

\* C10: when the response status is not a success status, downloadFile rejects
\* with an error naming the URL and the status code, the response is
\* discarded, and no file remains at the destination.
C10_HttpStatus ==
    \A d \in DlIds :
        (dl[d].status # 0 /\ dl[d].status \notin 200..299) =>
            /\ dl[d].st = "rejected"
            /\ dl[d].settled = "rejected"
            /\ dl[d].error = [msg |-> "Failed to get", url |-> d, status |-> dl[d].status]
            /\ ~dl[d].file
            /\ dl[d].fstream # "open"

\* C10 witness: the checksum download of an SDK run was answered with 404
C10_Witness ==
    /\ kind = "sdk"
    /\ dl["sidecar"].status = 404
    /\ dl["sidecar"].settled = "rejected"

\* C11 (as claimed): after a network-level error downloadFile has closed the
\* destination file without deleting it and has rejected with the underlying
\* error; only a non-success status makes downloadFile delete the file.
C11_NetErrorKeepsFile ==
    kind = "sub" =>
        \A d \in DlIds :
            (dl[d].settled = "rejected" /\ dl[d].error = NetError) =>
                /\ dl[d].fstream # "open"
                /\ dl[d].file

\* --------------------------------------------- functions called on their own

\* verifySha256(filePath, sha256Path) on a file and a sidecar, before its await
VerifyCalled(content, text) ==
    [fn |-> "verifySha256", st |-> "called", content |-> content, sidecar |-> text,
     error |-> NoError]

\* verifySha256 after the file has been hashed: lines 609..619
VerifySettled(c) ==
    IF VerifySha256(c.content, FirstField(c.sidecar))
    THEN [c EXCEPT !.st = "returned"]
    ELSE [c EXCEPT !.st = "thrown",
                   !.error = VerifyError(FirstField(c.sidecar), Sha256Hex(c.content))]

VerifyReturns ==
    /\ call.fn = "verifySha256"
    /\ call.st = "called"
    /\ call' = VerifySettled(call)
    /\ UNCHANGED <<viewer, kind, pc, aborted, sink, sum, minInc, zeroCalls, dl, zx, tmp, install, install0,
                   comp, verified, extracted, steps, err, panel>>

\* export const ALL_SDKS = [ ... ]
ALL_SDKS ==
    << [version |-> "4.0", api |-> "10"],
       [version |-> "4.1", api |-> "11"],
       [version |-> "5.0.0", api |-> "12"],
       [version |-> "5.0.1", api |-> "13"],
       [version |-> "5.0.2", api |-> "14"],
       [version |-> "5.0.3", api |-> "15"],
       [version |-> "5.1.0", api |-> "18"],
       [version |-> "6.0", api |-> "20"] >>

\* os.platform(), os.arch()
Platforms == {"linux", "darwin", "win32", "freebsd"}
Archs == {"x64", "arm64"}

\* the version argument: a known version, or "" when it is omitted
VersionArgs == {ALL_SDKS[i].version : i \in 1..Len(ALL_SDKS)} \cup {""}

\* const v = version || ALL_SDKS[ALL_SDKS.length - 1].version
VersionOrLatest(version) ==
    IF version = "" THEN ALL_SDKS[Len(ALL_SDKS)].version ELSE version

\* const strip = (v === '5.0.0' || v === '5.0.1' || v === '6.0') ? 0 : 1
StripOfBefore6(v) == IF v = "5.0.0" \/ v = "5.0.1" THEN 0 ELSE 1
StripOf(v) == IF v = "5.0.0" \/ v = "5.0.1" \/ v = "6.0" THEN 0 ELSE 1

\* getSdkFilename(version) on a platform and CPU architecture
GetSdkFilename(platform, arch, version) ==
    LET v == VersionOrLatest(version) IN
    IF platform = "linux"
    THEN [st |-> "returned", filename |-> "ohos-sdk-windows_linux-public.tar.gz",
          osFolder |-> "linux", strip |-> StripOf(v)]
    ELSE IF platform = "darwin"
    THEN IF arch = "arm64"
         THEN [st |-> "returned", filename |-> "L2-SDK-MAC-M1-PUBLIC.tar.gz",
               osFolder |-> "darwin", strip |-> 3]
         ELSE [st |-> "returned", filename |-> "ohos-sdk-mac-public.tar.gz",
               osFolder |-> "darwin", strip |-> 3]
    ELSE IF platform = "win32"
    THEN [st |-> "returned", filename |-> "ohos-sdk-windows_linux-public.tar.gz",
          osFolder |-> "windows", strip |-> StripOf(v)]
    ELSE [st |-> "thrown", filename |-> "", osFolder |-> "", strip |-> 0]

FilenameCalled(platform, arch, version) ==
    [fn |-> "getSdkFilename", st |-> "called", platform |-> platform, arch |-> arch,
     version |-> version, result |-> [st |-> "called"]]

FilenameReturns ==
    /\ call.fn = "getSdkFilename"
    /\ call.st = "called"
    /\ call' = [call EXCEPT !.result = GetSdkFilename(call.platform, call.arch, call.version),
                            !.st = GetSdkFilename(call.platform, call.arch, call.version).st]
    /\ UNCHANGED <<viewer, kind, pc, aborted, sink, sum, minInc, zeroCalls, dl, zx, tmp, install, install0,
                   comp, verified, extracted, steps, err, panel>>

InitFn ==
    /\ kind = "fn"
    /\ pc = "fn"
    /\ aborted = FALSE
    /\ sink = FALSE
    /\ sum = 0
    /\ minInc = 0
    /\ zeroCalls = FALSE
    /\ dl = [d \in DlIds |-> NoDownload]
    /\ zx = NoZip
    /\ tmp = "none"
    /\ install = {}
    /\ install0 = {}
    /\ comp = NoComp
    /\ verified = NotVerified
    /\ extracted = FALSE
    /\ steps = <<>>
    /\ err = NoError
    /\ viewer = NoViewer
    /\ panel = NoPanel
    /\ call \in {VerifyCalled(content, text) : content \in ArchiveContents, text \in SidecarTexts}
              \cup {FilenameCalled(p, a, v) : p \in Platforms, a \in Archs, v \in VersionArgs}

NextFn ==
    \/ VerifyReturns
    \/ FilenameReturns

SpecFn == InitFn /\ [][NextFn]_vars

\* the first white-space-delimited token of a text: white space before it is skipped
RECURSIVE SkipSpaces(_)
SkipSpaces(text) ==
    IF text # <<>> /\ IsSpace(Head(text)) THEN SkipSpaces(Tail(text)) ELSE text

FirstToken(text) == FirstField(SkipSpaces(text))

\* C12 (as claimed): verifySha256 succeeds exactly when the first
\* white-space-delimited token of the sidecar equals the lowercase hex digest
\* of the file, and on a mismatch the error names the expected and the actual
\* digest.
C12_VerifyIff ==
    (call.fn = "verifySha256" /\ call.st # "called") =>
        /\ call.st = "returned" <=> FirstToken(call.sidecar) = Sha256Hex(call.content)
        /\ call.st = "thrown" =>
              /\ call.error.msg = "SHA256 mismatch"
              /\ call.error.expected = FirstToken(call.sidecar)
              /\ call.error.actual = Sha256Hex(call.content)

\* C13 (as claimed): a run over a previous install leaves exactly the tree
\* of the new run at the install path: nothing that existed only in the
\* previous install remains once the run has completed.
C13_NoMerge ==
    (kind \in {"sdk", "cmd", "manual", "emu"} /\ pc = "done") => "old" \notin install

\* C14 (as claimed): when the tar extraction has not produced the OS-specific
\* subfolder, the run fails with the archive-structure error, no component is
\* extracted, nothing is relocated and an existing install is left untouched.
C14_MissingFolder ==
    comp.folder = "missing" =>
        /\ pc = "failed"
        /\ err = ExpectedFolderError
        /\ ~Started("extractComponent")
        /\ ~Started("relocate")
        /\ install = install0

\* C15: when no download URL is configured, installCmdTools issues no download
\* and does not fail with the configuration error; the manual flow takes over:
\* it fails with 'No ZIP file selected.' when nothing is picked, and otherwise
\* runs the extract, relocate and cleanup steps of the automatic flow.
C15_ManualFallback ==
    /\ \A d \in DlIds : dl[d].st # "idle" => dl[d].url = d
    /\ kind = "manual" =>
          /\ \A d \in DlIds : dl[d] = NoDownload
          /\ ~Started("dlArchive")
          /\ pc = "dialog" => (steps = <<>> /\ tmp = "none" /\ err = NoError)
          /\ (pc = "failed" /\ tmp = "none") =>
                (err = Err("No ZIP file selected.") /\ steps = <<"failed">>
                 /\ install = install0)
          /\ (pc = "failed" /\ tmp # "none") =>
                (tmp = "removed" /\ Started("extractPrimary") /\ Started("cleanup"))
          /\ pc = "done" =>
                (steps = <<"extractPrimary", "relocate", "cleanup", "done">>
                 /\ tmp = "removed" /\ "new" \in install)
    /\ (kind = "cmd" /\ pc = "done") =>
          steps = <<"dlArchive", "extractPrimary", "relocate", "cleanup", "done">>

\* C15 witness: the manual flow has installed the archive the user picked
C15_Witness ==
    /\ kind = "manual" /\ pc = "done" /\ "new" \in install

\* C16: for every known version, and for an omitted version (the last list
\* entry, 6.0), getSdkFilename returns strip 0 on Linux and Windows exactly
\* for 5.0.0, 5.0.1 and 6.0 and strip 1 for every other version, and strip 3
\* on Mac for every version and both CPU architectures.
C16_StripPolicy ==
    (call.fn = "getSdkFilename" /\ call.st # "called") =>
        /\ call.platform \in {"linux", "win32"} =>
              /\ call.st = "returned"
              /\ call.version \in {"5.0.0", "5.0.1", "6.0", ""} => call.result.strip = 0
              /\ call.version \in {"4.0", "4.1", "5.0.2", "5.0.3", "5.1.0"} =>
                    call.result.strip = 1
        /\ call.platform = "darwin" =>
              /\ call.st = "returned"
              /\ call.result.strip = 3

\* C16 witness: the version was omitted on Windows and nothing is stripped
C16_Witness ==
    /\ call.fn = "getSdkFilename" /\ call.st = "returned"
    /\ call.platform = "win32" /\ call.version = "" /\ call.result.strip = 0

\* ------------------------------------------------------ the SDK-manager panel

\* a run a message handler has started; its AbortController has its number
NewRun(k) == [kind |-> k, st |-> "running", aborted |-> FALSE]

\* context.currentAbortController.abort() / ?.abort(): nothing when it is undefined
AbortCurrent(p) ==
    IF p.current # 0
    THEN [p EXCEPT !.runs[p.current].aborted = TRUE]
    ELSE p

\* messageHandlers.downloadSdk / installCmdTools / installEmulator up to the
\* await of the orchestrator: the previous controller is aborted, a new one
\* becomes the current one and its signal is passed to the new run
PanelStart ==
    /\ kind = "panel"
    /\ Len(panel.runs) < MaxRuns
    /\ \E k \in {"sdk", "cmd", "emu"} :
          panel' = [AbortCurrent(panel) EXCEPT !.runs = Append(@, NewRun(k)),
                                               !.current = Len(panel.runs) + 1]
    /\ UNCHANGED <<viewer, kind, pc, aborted, sink, sum, minInc, zeroCalls, dl, zx, tmp, install, install0,
                   comp, verified, extracted, steps, err, call>>

\* token.onCancellationRequested(() => context.currentAbortController?.abort())
\* of the notification of run i; cancelled records the runs whose
\* notification has asked for cancellation
PanelCancel(i) ==
    /\ kind = "panel"
    /\ panel.runs[i].st = "running"
    /\ panel' = [AbortCurrent(panel) EXCEPT !.cancelled = @ \cup {i}]
    /\ UNCHANGED <<viewer, kind, pc, aborted, sink, sum, minInc, zeroCalls, dl, zx, tmp, install, install0,
                   comp, verified, extracted, steps, err, call>>

\* the orchestrator of run i has returned or thrown: the handler reports the
\* outcome and runs finally { context.currentAbortController = undefined; }
PanelRunEnds(i) ==
    /\ kind = "panel"
    /\ panel.runs[i].st = "running"
    /\ panel' = [panel EXCEPT !.runs[i].st = "ended", !.current = 0]
    /\ UNCHANGED <<viewer, kind, pc, aborted, sink, sum, minInc, zeroCalls, dl, zx, tmp, install, install0,
                   comp, verified, extracted, steps, err, call>>

InitPanel ==
    /\ kind = "panel"
    /\ pc = "panel"
    /\ aborted = FALSE
    /\ sink = TRUE
    /\ sum = 0
    /\ minInc = 0
    /\ zeroCalls = FALSE
    /\ dl = [d \in DlIds |-> NoDownload]
    /\ zx = NoZip
    /\ tmp = "none"
    /\ install = {}
    /\ install0 = {}
    /\ comp = NoComp
    /\ verified = NotVerified
    /\ extracted = FALSE
    /\ steps = <<>>
    /\ err = NoError
    /\ viewer = NoViewer
    /\ call = NoCall
    /\ panel = NoPanel

NextPanel ==
    \/ PanelStart
    \/ \E i \in 1..Len(panel.runs) : PanelCancel(i)
    \/ \E i \in 1..Len(panel.runs) : PanelRunEnds(i)

SpecPanel == InitPanel /\ [][NextPanel]_vars

\* the runs of the panel that are in progress and whose signal is not aborted
LiveRuns ==
    {i \in 1..Len(panel.runs) : panel.runs[i].st = "running" /\ ~panel.runs[i].aborted}

\* C17 (as claimed): whenever a new run starts, every earlier run of the panel
\* that is still in progress has had its signal aborted: at most one run
\* that is not aborted is in progress at any time.
C17_OneLiveRun ==
    Cardinality(LiveRuns) <= 1

\* C18 (as claimed): when the checksum of the SDK archive does not match, the
\* run fails and the downloaded archive is still in the temp workspace after
\* the run has ended.
C18_MismatchKeepsArchive ==
    (kind = "sdk" /\ verified.st = "mismatch") =>
        /\ pc = "failed"
        /\ dl["archive"].file
        /\ tmp = "exists"

\* C19 (as claimed): the signal is checked before each archive entry and
\* before each relocation step: once it is set, a zip extraction begins no
\* further entry (the entry being written may complete) and no relocation
\* into the install directory is started.
C19_Checkpoints ==
    [][aborted =>
          /\ zx'.st = "entries" => (zx.st = "entries" /\ zx'.processed = zx.processed)
          /\ (\E i \in 1..Len(steps') : steps'[i] = "relocate") => Started("relocate")]_vars

\* C20: in the SDK workflow every zip found in the OS-specific subfolder is
\* extracted exactly once, one after the other, and deleted right after its
\* extraction; a zip is never deleted before its extraction has completed,
\* and after a successful run none of them is left.
C20_ComponentZips ==
    (kind = "sdk" /\ comp.folder = "found") =>
        /\ comp.unzipped = [i \in 1..comp.idx |-> i]
        /\ comp.zips = (comp.idx + 1)..comp.n
        /\ (pc = "components" /\ zx.st \in {"opening", "entries", "resolved"}) =>
              (comp.idx + 1) \in comp.zips
        /\ pc = "done" => (comp.zips = {} /\ Len(comp.unzipped) = comp.n)

\* C20 witness: a run has extracted and deleted two component zips
C20_Witness ==
    /\ kind = "sdk" /\ pc = "done" /\ comp.unzipped = <<1, 2>> /\ comp.zips = {}

\* the downloads of the run whose request is in flight
InFlight == {d \in DlIds : dl[d].st \in {"requested", "streaming"}}

\* C21: within one run every step is attempted at most once (one extraction
\* per component zip); after a step has failed no step is attempted again and
\* no further HTTP request is issued by the run.
C21_NoRetry ==
    /\ [](kind \in {"sdk", "cmd", "manual", "emu"} =>
            /\ \A i, j \in 1..Len(steps) :
                  (i < j /\ steps[i] = steps[j]) => steps[i] = "extractComponent"
            /\ Cardinality({i \in 1..Len(steps) : steps[i] = "extractComponent"}) <= comp.n
            /\ pc \in {"failed", "done"} => InFlight = {}
            /\ \A d \in DlIds : dl[d].settled = "rejected" => Cardinality(InFlight) = 0)
    /\ [][pc = "failed" => (steps' = steps /\ InFlight' = {})]_vars

\* C21 witness: the checksum download of an SDK run has failed after the
\* archive download succeeded
C21_Witness ==
    /\ kind = "sdk" /\ pc = "failed"
    /\ dl["archive"].settled = "ok" /\ dl["sidecar"].settled = "rejected"
    /\ dl["sidecar"].error = NetError

\* C22: inside a download or a zip extraction the sink is called only when the
\* overall value exceeds the last emitted one; an event that does not raise it
\* causes no call to the sink (so no call carries the increment 0).
C22_NoFlatCall ==
    kind = "sub" => ~zeroCalls

\* the budgets in effect in the sub-operations that have been called
Budgets ==
    {<<dl[d].s, dl[d].r, dl[d].lastOverall>> : d \in {x \in DlIds : dl[x].st # "idle"}}
    \cup (IF zx.st # "idle" THEN {<<zx.s, zx.r, zx.lastOverall>>} ELSE {})

\* C23: for any start and range arguments (negative ones and ones above 100
\* included) the budget in effect satisfies 0 <= start <= 100 and
\* 0 <= range <= 100 - start, hence start + range <= 100, and no overall value
\* above 100 is computed from it.
C23_Clamped ==
    kind = "sub" =>
        /\ \A b \in Budgets :
              /\ 0 <= b[1] /\ b[1] <= 100
              /\ 0 <= b[2] /\ b[2] <= 100 - b[1]
              /\ b[1] + b[2] <= 100
              /\ b[3] <= 100
              /\ EndOverall(b[1], b[2]) = b[1] + b[2]
        /\ \A b \in Budgets : b[1] + sum <= 100

\* C23 witness: a download called with start -5 and range 120 has completed
\* and has reported the whole of 0..100
C23_Witness ==
    /\ kind = "sub" /\ sink
    /\ dl["archive"].startArg = -5 /\ dl["archive"].rangeArg = 120
    /\ dl["archive"].settled = "ok" /\ sum = 100

\* C24: after a file entry is written chmod is tried iff the high 16 bits of
\* its external attributes are non-zero, with the mode (ext >>> 16) & 0o777;
\* it is never tried for a directory entry; and an exception of chmod neither
\* makes extractZipWithProgress fail nor stops the remaining entries.
C24_ChmodBestEffort ==
    /\ [](kind = "sub" /\ zx.entry.type # "none" =>
            /\ zx.entry.mode # -1 <=> (zx.entry.type = "File" /\ zx.entry.hi # 0)
            /\ zx.entry.mode # -1 => zx.entry.mode = zx.entry.hi % 512
            /\ zx.entry.type = "Directory" => zx.entry.mode = -1
            /\ zx.entry.failed => zx.entry.mode # -1
            /\ zx.st = "resolved" => zx.processed = zx.files)
    /\ [][(kind = "sub" /\ zx'.processed # zx.processed /\ zx'.entry.failed) =>
              /\ zx'.processed = zx.processed + 1
              /\ zx'.st = IF zx'.processed = zx.files THEN "resolved" ELSE "entries"]_vars

\* C24 witness: an extraction of two entries has returned although the chmod
\* of its last entry, a file with mode 0o100755, threw
C24_Witness ==
    /\ kind = "sub" /\ zx.st = "resolved" /\ zx.files = 2 /\ zx.processed = 2
    /\ zx.entry.type = "File" /\ zx.entry.mode = 493 /\ zx.entry.failed

\* C25: once a downloadFile call has resolved, aborting the same signal later
\* in the run neither deletes nor changes the file at its destination path.
C25_CompletedSurvives ==
    [][\A d \in DlIds :
          (dl[d].settled = "ok" /\ ~aborted /\ aborted') => dl'[d].file = dl[d].file]_vars

\* C26: while a run of the panel is in progress, a cancellation request on its
\* notification aborts the signal that was passed to that run, also when an
\* earlier run it pre-empted has ended in the meantime.
C26_CancelReachesRun ==
    kind = "panel" => \A i \in panel.cancelled : panel.runs[i].aborted

\* C27: a run of any orchestrator that fails or is cancelled during download,
\* verification or extraction (before relocation has started) leaves the
\* contents of the install directory as they were before the run.
C27_FailedKeepsInstall ==
    (kind \in {"sdk", "cmd", "manual", "emu"} /\ pc = "failed" /\ ~Started("relocate")) =>
        install = install0

\* C28: under fair scheduling of the network and file events the promise of
\* every downloadFile call eventually settles, also when the response is
\* aborted or fails after the headers and part of the body were received.
C28_Terminates ==
    \A d \in DlIds : (kind = "sub" /\ dl[d].st # "idle") ~> (dl[d].settled # "no")

\* ------------------------------------------------------ the HiLog viewer panel

\* if (hdcProcess) { hdcProcess.kill(); }: the process the variable refers to
\* is terminated; a process that has ended stays ended
KillCurrent(v) ==
    IF v.hdcProcess # 0 /\ v.procs[v.hdcProcess] = "alive"
    THEN [v EXCEPT !.procs[v.hdcProcess] = "killed"]
    ELSE v

\* message.command === 'startLog' up to the await inside startHilogProcess
\* (lines 29..35 and 137..141): the current process is killed, hdcProcess
\* keeps its value until the await returns
LogStart ==
    /\ kind = "hilog"
    /\ ~viewer.disposed
    /\ Len(viewer.procs) + viewer.awaiting < MaxLogs
    /\ viewer' = [KillCurrent(viewer) EXCEPT !.awaiting = @ + 1, !.last = "startLog"]
    /\ UNCHANGED <<kind, pc, aborted, sink, sum, minInc, zeroCalls, dl, zx, tmp, install, install0,
                   comp, verified, extracted, steps, err, call, panel>>

\* the buffer-level command of one startLog handler has closed: hilog is
\* spawned (line 147) and assigned to hdcProcess (line 35)
LogSpawn ==
    /\ kind = "hilog"
    /\ viewer.awaiting > 0
    /\ viewer' = [viewer EXCEPT !.awaiting = @ - 1,
                                !.procs = Append(@, "alive"),
                                !.hdcProcess = Len(viewer.procs) + 1]
    /\ UNCHANGED <<kind, pc, aborted, sink, sum, minInc, zeroCalls, dl, zx, tmp, install, install0,
                   comp, verified, extracted, steps, err, call, panel>>

\* the buffer-level command could not be spawned ('error', line 140): the
\* handler throws and hdcProcess keeps its value
LogLevelError ==
    /\ kind = "hilog"
    /\ viewer.awaiting > 0
    /\ viewer' = [viewer EXCEPT !.awaiting = @ - 1]
    /\ UNCHANGED <<kind, pc, aborted, sink, sum, minInc, zeroCalls, dl, zx, tmp, install, install0,
                   comp, verified, extracted, steps, err, call, panel>>

\* message.command === 'stopLog' (lines 42..46)
LogStop ==
    /\ kind = "hilog"
    /\ ~viewer.disposed
    /\ viewer' = [KillCurrent(viewer) EXCEPT !.hdcProcess = 0, !.last = "stopLog"]
    /\ UNCHANGED <<kind, pc, aborted, sink, sum, minInc, zeroCalls, dl, zx, tmp, install, install0,
                   comp, verified, extracted, steps, err, call, panel>>

\* panel.onDidDispose (lines 87..92)
LogDispose ==
    /\ kind = "hilog"
    /\ ~viewer.disposed
    /\ viewer' = [KillCurrent(viewer) EXCEPT !.disposed = TRUE]
    /\ UNCHANGED <<kind, pc, aborted, sink, sum, minInc, zeroCalls, dl, zx, tmp, install, install0,
                   comp, verified, extracted, steps, err, call, panel>>

\* a hilog process ends by itself (the device is disconnected)
LogExit(i) ==
    /\ kind = "hilog"
    /\ viewer.procs[i] = "alive"
    /\ viewer' = [viewer EXCEPT !.procs[i] = "exited"]
    /\ UNCHANGED <<kind, pc, aborted, sink, sum, minInc, zeroCalls, dl, zx, tmp, install, install0,
                   comp, verified, extracted, steps, err, call, panel>>

InitLog ==
    /\ kind = "hilog"
    /\ pc = "hilog"
    /\ aborted = FALSE
    /\ sink = TRUE
    /\ sum = 0
    /\ minInc = 0
    /\ zeroCalls = FALSE
    /\ dl = [d \in DlIds |-> NoDownload]
    /\ zx = NoZip
    /\ tmp = "none"
    /\ install = {}
    /\ install0 = {}
    /\ comp = NoComp
    /\ verified = NotVerified
    /\ extracted = FALSE
    /\ steps = <<>>
    /\ err = NoError
    /\ call = NoCall
    /\ panel = NoPanel
    /\ viewer = NoViewer

NextLog ==
    \/ LogStart
    \/ LogSpawn
    \/ LogLevelError
    \/ LogStop
    \/ LogDispose
    \/ \E i \in 1..MaxLogs : i <= Len(viewer.procs) /\ LogExit(i)

SpecLog == InitLog /\ [][NextLog]_vars

\* the hilog processes of the viewer that are alive
AliveLogs == {i \in 1..Len(viewer.procs) : viewer.procs[i] = "alive"}

\* C29: for any interleaving of startLog, stopLog and dispose of one viewer
\* panel, at most one hilog process started by the panel is alive, and none is
\* alive once stopLog has been handled (and no startLog received since) or the
\* panel has been disposed.
C29_OneLogStream ==
    kind = "hilog" =>
        /\ Cardinality(AliveLogs) <= 1
        /\ viewer.last = "stopLog" => AliveLogs = {}
        /\ viewer.disposed => AliveLogs = {}

\* C30: whatever the order of the response, 'finish', request-error and abort
\* events of one downloadFile call, its promise is settled once, by the first
\* of these outcomes, and every later event leaves the outcome unchanged.
C30_SettledOnce ==
    [][kind = "sub" =>
          \A d \in DlIds :
              dl[d].settled # "no" =>
                  /\ dl'[d].settled = dl[d].settled
                  /\ dl'[d].error = dl[d].error]_vars

\* C30 witness: a download rejected by a request error has handled a later
\* abort of the signal
C30_Witness ==
    /\ kind = "sub" /\ aborted
    /\ dl["archive"].settled = "rejected" /\ dl["archive"].error = NetError

====
